---- MODULE Spec2Model ----
(***************************************************************************)
(* Model of ExecutorService.execute_code                                   *)
(* (backend/app/services/executor.py): the execution-and-repair engine.    *)
(* One job is one run of the async generator execute_code; every `yield`   *)
(* appends one status event to `events`.  Three functions are modelled     *)
(* apart from a job, each under a specification of its own: one timed      *)
(* call of _run_with_heartbeat (HbSpec), one call of check_updates         *)
(* (backend/app/api/settings.py, VerSpec) and the history section of one   *)
(* call of fix_code (backend/app/agents/code_adaptor.py, CtxSpec).         *)
(***************************************************************************)
EXTENDS Integers, Sequences, FiniteSets, TLC

\* ------------------------------------------------------------------ bounds
MaxRetriesBound == 1    \* max_retries is drawn from -1 .. MaxRetriesBound
MaxTimeouts == 1        \* heartbeat-interval expiries explored in one run
MaxFaults == 1          \* non-terminal faults explored in one run: calls
                        \* of a collaborator that do not return a plain
                        \* result, and failing os.remove calls
MaxClock == 17          \* seconds explored of one _run_with_heartbeat call

\* ------------------------------------------------------------------ inputs
\* A raw line as a child writes it (before rstrip): a JSON document followed
\* by trailing blanks.
JsonOkLine == "{\"ok\": true}  "

\* str.rstrip(): trailing whitespace removed.
RStrip(line) ==
    CASE line = "   " -> ""
      [] line = JsonOkLine -> "{\"ok\": true}"
      [] OTHER -> line

\* A line of 5000 opening brackets: a malformed JSON document nested deeper
\* than the interpreter's recursion limit.
DeepLine == "[ x 5000"

\* json.loads(): the parsed document, or the exception it raises:
\* "JSONDecodeError" for a malformed document, "RecursionError" when the
\* nesting passes the recursion limit before the scanner can tell.  "None"
\* is Python's None (the JSON document null).
JsonLoads(s) ==
    CASE s = "{\"ok\": true}" -> "dict(ok=True)"
      [] s = JsonOkLine -> "dict(ok=True)"
      [] s = "{}" -> "dict()"
      [] s = "null" -> "None"
      [] s = DeepLine -> "RecursionError"
      [] OTHER -> "JSONDecodeError"

\* Lines 132-135: json.loads(s) returns (the bare except takes any raise).
IsJson(s) == JsonLoads(s) \notin {"JSONDecodeError", "RecursionError"}

\* A line of 498 characters, as a traceback line can be.
LongLine == "E x 498"

\* len(): the number of characters of a line (after rstrip).
StrLen(line) ==
    CASE line = LongLine -> 498
      [] line = "{\"ok\": true}" -> 12
      [] line \in {"boom", "warn", "null"} -> 4
      [] line \in {"A", "\n"} -> 1
      [] OTHER -> 0

\* A text is a sequence of slices: characters from..to of a line, the
\* newline being a line of one character.
Slice(line) == [line |-> line, from |-> 1, to |-> StrLen(line)]

TextLen(text) ==
    LET RECURSIVE Sum(_)
        Sum(i) == IF i = 0 THEN 0
                  ELSE Sum(i - 1) + (text[i].to - text[i].from + 1)
    IN Sum(Len(text))

\* Lines 160-161: "\n".join(chunks).
Join(chunks) ==
    LET RECURSIVE J(_)
        J(i) == IF i = 0 THEN <<>>
                ELSE IF i = 1 THEN <<Slice(chunks[1])>>
                ELSE J(i - 1) \o <<Slice("\n"), Slice(chunks[i])>>
    IN J(Len(chunks))

\* Lines 191 and 197: the number of characters kept of the error text.
TailLen == 500

\* Lines 191 and 197, text[-n:]: the last n characters of a text, or all
\* of it when it has no more than n.
LastChars_whole(text, n) == text

RECURSIVE LastChars(_, _)
LastChars(text, n) ==
    IF text = <<>> \/ n <= 0 THEN <<>>
    ELSE LET last == text[Len(text)]
             len == last.to - last.from + 1
         IN IF len >= n
            THEN <<[last EXCEPT !.from = last.to - n + 1]>>
            ELSE LastChars(SubSeq(text, 1, Len(text) - 1), n - len)
                 \o <<last>>

\* The scripts a caller can submit or the Repairer can return, each with what
\* its child process does: lines written to stdout and stderr, exit status,
\* and whether it never exits (hang).
ScriptIds == {"ok_json", "ok_text", "ok_silent", "ok_json_blank", "ok_null",
              "ok_deep", "fail", "hang"}

Behaviour(script) ==
    CASE script = "ok_json" ->
           [out |-> <<"A", JsonOkLine>>, err |-> <<>>, rc |-> 0, hang |-> FALSE]
      [] script = "ok_text" ->
           [out |-> <<"A">>, err |-> <<"warn">>, rc |-> 0, hang |-> FALSE]
      [] script = "ok_silent" ->
           [out |-> <<>>, err |-> <<>>, rc |-> 0, hang |-> FALSE]
      [] script = "ok_json_blank" ->
           [out |-> <<"{\"ok\": true}", "   ">>, err |-> <<>>, rc |-> 0,
            hang |-> FALSE]
      [] script = "ok_null" ->
           [out |-> <<"null">>, err |-> <<>>, rc |-> 0, hang |-> FALSE]
      [] script = "ok_deep" ->
           [out |-> <<DeepLine>>, err |-> <<>>, rc |-> 0, hang |-> FALSE]
      [] script = "fail" ->
           [out |-> <<"{\"ok\": true}">>, err |-> <<"boom", LongLine>>,
            rc |-> 1,
            hang |-> FALSE]
      [] script = "hang" ->
           [out |-> <<"A">>, err |-> <<>>, rc |-> 0, hang |-> TRUE]

\* What a Diagnoser call can do: return a text summary, return a dict that
\* has status "info", or raise.
DiagOutcomes == {"text", "info_dict", "raise"}

\* What a Repairer call can do: return a script (one that succeeds with a
\* report, one that succeeds without, one that fails), return a dict that
\* has status "fixing", or raise.
FixOutcomes == {"ok_json", "ok_text", "fail", "fixing_dict", "raise"}

\* ------------------------------------------------------------------- state
VARIABLES
    pc,              \* position of the generator
    max_retries,     \* argument of execute_code
    attempt, current_code, error_history, error_summary,
    temp_file_path,  \* 0 while unbound, else the path of the attempt's file
    fs,              \* temp files on disk: [path, content]
    events,          \* status events yielded to the caller, in order
    proc,            \* script run by the current child, "none" if no child
    stdout_chunks, stderr_chunks,
    outPos, errPos,  \* raw lines already read from each stream
    stdout_task, stderr_task,   \* "none", "running", "done", "failed"
    update_queue,
    return_code,     \* <<>> while unset, else <<rc>>
    spawned,         \* scripts executed by child processes, in order
    repairCalls,     \* arguments received by fix_code, in order
    timeouts,        \* heartbeat intervals that expired so far
    polls,           \* parity of the drain loop's 0.1 s expiries, this attempt
    faults,          \* non-terminal faults so far
    \* One call of _run_with_heartbeat, with its clock:
    hbPc,            \* position of the wrapper, "idle" outside a call
    now,             \* the clock, in seconds
    task,            \* the task running f: "running", "returned", "raised"
    waitStart,       \* the time the current wait_for began
    items,           \* what the wrapper handed to its consumer, in order
    idle,            \* seconds the wrapper was kept from running: held at
                     \* a yield by its consumer, or due to run (its timer
                     \* expired or its task ended) and not yet scheduled
    \* One call of check_updates (api/settings.py):
    VERSION,         \* the running version, a sequence of components
    tag_name,        \* the tag of the latest release: [v, parts]
    update_response, \* <<>> before the call, else <<the dict returned>>
    \* One call of CodeAdaptationAgent.fix_code (agents/code_adaptor.py):
    fix_history,     \* its error_history argument
    history_section  \* <<>> before the call, else <<the attempts listed>>

vars == <<pc, max_retries, attempt, current_code, error_history,
          error_summary, temp_file_path, fs, events, proc, stdout_chunks,
          stderr_chunks, outPos, errPos, stdout_task, stderr_task,
          update_queue, return_code, spawned, repairCalls, timeouts, polls,
          faults, hbPc, now, task, waitStart, items, idle, VERSION,
          tag_name, update_response, fix_history, history_section>>

jobVars == <<max_retries, attempt, current_code, error_history,
             error_summary>>
fileVars == <<temp_file_path, fs>>
streamVars == <<proc, stdout_chunks, stderr_chunks, outPos, errPos,
                stdout_task, stderr_task, update_queue, return_code,
                spawned>>
ghostVars == <<repairCalls, timeouts, polls, faults>>
hbVars == <<hbPc, now, task, waitStart, items, idle>>
verVars == <<VERSION, tag_name, update_response>>
ctxVars == <<fix_history, history_section>>
\* What a step of a job leaves alone: the calls modelled apart from it.
callVars == <<hbVars, verVars, ctxVars>>

\* An error summary: the attempt it was made for, where it came from
\* ("diag": the Diagnoser's text; "tail": the fixed label "Pipeline execution
\* failed. Error: " of line 191) and the error text that follows the label.
NoSummary == [src |-> "unbound", att |-> 0, text |-> <<>>]

\* One status event.  att is the attempt counter when it was yielded.
Ev(status, msg, code, report, summary, line) ==
    [status |-> status, msg |-> msg, att |-> attempt, code |-> code,
     report |-> report, summary |-> summary, line |-> line]

Info(msg) == Ev("info", msg, current_code, "-", NoSummary, "-")
FinalError(msg) == Ev("final_error", msg, current_code, "-", NoSummary, "-")

\* The wrapper outside a call.
HbIdle ==
    /\ hbPc = "idle"
    /\ now = 0
    /\ task = "running"
    /\ waitStart = 0
    /\ items = <<>>
    /\ idle = 0

\* check_updates outside a call.
VerIdle ==
    /\ VERSION = <<0>>
    /\ tag_name = [v |-> FALSE, parts |-> <<0>>]
    /\ update_response = <<>>

\* fix_code outside a call.
CtxIdle ==
    /\ fix_history = <<>>
    /\ history_section = <<>>

\* Lines 32-34: the job before its first step.
JobInit ==
    /\ pc = "start"
    /\ max_retries \in -1 .. MaxRetriesBound
    /\ attempt = 0
    /\ current_code \in ScriptIds
    /\ error_history = <<>>
    /\ error_summary = NoSummary
    /\ temp_file_path = 0
    /\ fs = {}
    /\ events = <<>>
    /\ proc = "none"
    /\ stdout_chunks = <<>>
    /\ stderr_chunks = <<>>
    /\ outPos = 0
    /\ errPos = 0
    /\ stdout_task = "none"
    /\ stderr_task = "none"
    /\ update_queue = <<>>
    /\ return_code = <<>>
    /\ spawned = <<>>
    /\ repairCalls = <<>>
    /\ timeouts = 0
    /\ polls = FALSE
    /\ faults = 0

Init == JobInit /\ HbIdle /\ VerIdle /\ CtxIdle

\* ----------------------------------------------------------------- actions
\* Lines 27-34: build the ErrorAnalysisAgent; a failure is terminal.
Startup ==
    /\ pc = "start"
    /\ \E ok \in BOOLEAN :
         IF ok
         THEN /\ pc' = "loop"
              /\ events' = events
         ELSE /\ pc' = "terminal_plain"
              /\ events' = Append(events, FinalError("startup_failed"))
    /\ UNCHANGED <<callVars, jobVars, fileVars, streamVars, ghostVars>>

\* Line 36: the loop condition.
LoopContinues_strict(att, bound) == att < bound
LoopContinues(att, bound) == att <= bound

\* Line 201: is a repair and another attempt allowed.
RepairAllowed_strict(att, bound) == att < bound
RepairAllowed_loose(att, bound) == att <= bound + 1
RepairAllowed(att, bound) == att <= bound

\* Lines 36-38 and 236: the loop test, the attempt announcement, and the
\* fallback final_error after the loop.
NextAttempt_skip(att) == att + 2
NextAttempt(att) == att + 1

LoopHead ==
    /\ pc = "loop"
    /\ IF LoopContinues(attempt, max_retries)
       THEN /\ attempt' = NextAttempt(attempt)
            /\ events' = Append(events,
                   [Info("attempt") EXCEPT !.att = NextAttempt(attempt)])
            /\ pc' = "write"
       ELSE /\ attempt' = attempt
            /\ events' = Append(events, FinalError("ended_without_success"))
            /\ pc' = "terminal_plain"
    /\ UNCHANGED <<callVars, max_retries, current_code, error_history, error_summary,
                   fileVars, streamVars, ghostVars>>

\* Lines 45-47: the position after the final_error of a write fault (the
\* return statement, outside the try block of lines 50-233).
AfterWriteFault_retry == "loop"
AfterWriteFault == "terminal_plain"

\* Lines 41-47: NamedTemporaryFile(delete=False) creates a freshly named
\* file, then the script is written.  Creation can fail (no file), and the
\* write can fail after the file was created (temp_file_path not assigned).
WriteFile ==
    /\ pc = "write"
    /\ \E outcome \in {"ok", "create_fail", "write_fail"} :
         CASE outcome = "ok" ->
                /\ fs' = fs \cup {[path |-> attempt, content |-> current_code]}
                /\ temp_file_path' = attempt
                /\ events' = events
                /\ pc' = "spawn"
           [] outcome = "create_fail" ->
                /\ fs' = fs
                /\ temp_file_path' = temp_file_path
                /\ events' = Append(events, FinalError("write_failed"))
                /\ pc' = AfterWriteFault
           [] outcome = "write_fail" ->
                /\ fs' = fs \cup {[path |-> attempt, content |-> "partial"]}
                /\ temp_file_path' = temp_file_path
                /\ events' = Append(events, FinalError("write_failed"))
                /\ pc' = AfterWriteFault
    /\ UNCHANGED <<callVars, jobVars, streamVars, ghostVars>>

FileContent(path) == (CHOOSE f \in fs : f.path = path).content

\* Lines 51-57, 59, 79, 118, 139-140: announce the run, spawn the child on
\* the temp file, start the two reader tasks.  A spawn fault goes to the
\* handler of lines 223-227.
Spawn ==
    /\ pc = "spawn"
    /\ \E ok \in BOOLEAN :
         IF ok
         THEN /\ events' = Append(events, Info("running"))
              /\ proc' = FileContent(temp_file_path)
              /\ spawned' = Append(spawned, FileContent(temp_file_path))
              /\ stdout_task' = "running"
              /\ stderr_task' = "running"
              /\ stdout_chunks' = <<>>
              /\ stderr_chunks' = <<>>
              /\ outPos' = 0
              /\ errPos' = 0
              /\ update_queue' = <<>>
              /\ pc' = "stream"
         ELSE /\ events' = events \o <<Info("running"),
                                       FinalError("system_error")>>
              /\ UNCHANGED <<proc, spawned, stdout_task, stderr_task,
                             stdout_chunks, stderr_chunks, outPos, errPos,
                             update_queue>>
              /\ pc' = "terminal_try"
    /\ UNCHANGED <<callVars, jobVars, fileVars, return_code, ghostVars>>

\* Lines 139-140: each reader is a task of its own; it runs while it has not
\* ended, whatever the other reader does.
ReaderRuns_sequential(reader, other) ==
    reader = "running" /\ other \in {"done", "failed"}

ReaderRuns(reader, other) == reader = "running"

\* Lines 120-136, stream_reader(process.stdout, False): one readline().
\* A non-blank line is kept in stdout_chunks; it is queued as an info event
\* unless json.loads accepts it.
ReadStdoutLine ==
    /\ pc = "stream"
    /\ ReaderRuns(stdout_task, stderr_task)
    /\ outPos < Len(Behaviour(proc).out)
    /\ LET line_str == RStrip(Behaviour(proc).out[outPos + 1]) IN
         /\ outPos' = outPos + 1
         /\ IF line_str # ""
            THEN /\ stdout_chunks' = Append(stdout_chunks, line_str)
                 /\ update_queue' =
                      IF IsJson(line_str)
                      THEN update_queue
                      ELSE Append(update_queue,
                             Ev("info", "line", current_code, "-", NoSummary,
                                line_str))
            ELSE UNCHANGED <<stdout_chunks, update_queue>>
    /\ UNCHANGED <<callVars, pc, jobVars, fileVars, events, proc, stderr_chunks, errPos,
                   stdout_task, stderr_task, return_code, spawned, ghostVars>>

\* Lines 120-129, stream_reader(process.stderr, True): one readline().
ReadStderrLine ==
    /\ pc = "stream"
    /\ ReaderRuns(stderr_task, stdout_task)
    /\ errPos < Len(Behaviour(proc).err)
    /\ LET line_str == RStrip(Behaviour(proc).err[errPos + 1]) IN
         /\ errPos' = errPos + 1
         /\ IF line_str # ""
            THEN /\ stderr_chunks' = Append(stderr_chunks, line_str)
                 /\ update_queue' = Append(update_queue,
                        Ev("info", "stderr_line", current_code, "-",
                           NoSummary, line_str))
            ELSE UNCHANGED <<stderr_chunks, update_queue>>
    /\ UNCHANGED <<callVars, pc, jobVars, fileVars, events, proc, stdout_chunks, outPos,
                   stdout_task, stderr_task, return_code, spawned, ghostVars>>

\* Lines 122-124: readline() returns b"" once the child has closed the
\* stream, which a hanging child never does; the reader task finishes.
ReadEOF ==
    /\ pc = "stream"
    /\ ~Behaviour(proc).hang
    /\ \/ /\ stdout_task = "running"
          /\ outPos = Len(Behaviour(proc).out)
          /\ stdout_task' = "done"
          /\ UNCHANGED stderr_task
       \/ /\ stderr_task = "running"
          /\ errPos = Len(Behaviour(proc).err)
          /\ stderr_task' = "done"
          /\ UNCHANGED stdout_task
    /\ UNCHANGED <<callVars, pc, jobVars, fileVars, events, proc, stdout_chunks,
                   stderr_chunks, outPos, errPos, update_queue, return_code,
                   spawned, ghostVars>>

\* Line 122: readline() raises (ValueError when a line is longer than the
\* StreamReader limit); the reader task ends with that exception.
ReadFault ==
    /\ pc = "stream"
    /\ \/ /\ stdout_task = "running"
          /\ outPos < Len(Behaviour(proc).out)
          /\ stdout_task' = "failed"
          /\ UNCHANGED stderr_task
       \/ /\ stderr_task = "running"
          /\ errPos < Len(Behaviour(proc).err)
          /\ stderr_task' = "failed"
          /\ UNCHANGED stdout_task
    /\ UNCHANGED <<callVars, pc, jobVars, fileVars, events, proc, stdout_chunks,
                   stderr_chunks, outPos, errPos, update_queue, return_code,
                   spawned, ghostVars>>

TaskDone(reader) == reader \in {"done", "failed"}

\* Line 143: the condition of the loop that drains update_queue.
Draining_tasksOnly == ~TaskDone(stdout_task) \/ ~TaskDone(stderr_task)

Draining ==
    ~TaskDone(stdout_task) \/ ~TaskDone(stderr_task) \/ update_queue # <<>>

\* Lines 118 and 148: asyncio.Queue is first in, first out; get() takes the
\* oldest item.  The index of the item taken.
QueueFront_newest(q) == Len(q)
QueueFront(q) == 1

\* Lines 143-149: an update is taken from the queue and yielded.
QueueGet ==
    /\ pc = "stream"
    /\ Draining
    /\ update_queue # <<>>
    /\ LET i == QueueFront(update_queue) IN
         /\ events' = Append(events, update_queue[i])
         /\ update_queue' = SubSeq(update_queue, 1, i - 1)
                             \o SubSeq(update_queue, i + 1,
                                       Len(update_queue))
    /\ UNCHANGED <<callVars, pc, jobVars, fileVars, proc, stdout_chunks, stderr_chunks,
                   outPos, errPos, stdout_task, stderr_task, return_code,
                   spawned, ghostVars>>

\* Lines 148-152: the queue stayed empty for 0.1 s; the loop goes round.
PollTimeout ==
    /\ pc = "stream"
    /\ Draining
    /\ update_queue = <<>>
    /\ polls' = ~polls
    /\ UNCHANGED <<callVars, pc, jobVars, fileVars, events, streamVars, repairCalls,
                   timeouts, faults>>

\* Lines 165-167: the result extractor.  The last kept stdout line (or "{}"
\* when none was kept) is parsed; the exception's name when it raises.
ExtractReport_first(chunks) ==
    JsonLoads(IF chunks # <<>> THEN chunks[1] ELSE "{}")

ExtractReport(chunks) ==
    JsonLoads(IF chunks # <<>> THEN chunks[Len(chunks)] ELSE "{}")

\* Lines 229-233: the finally clause.  The attempt's file is removed when it
\* exists; a failing os.remove is swallowed (removed = FALSE).
RemoveTemp_keep(removed) == fs
RemoveTemp(removed) ==
    IF removed
    THEN {f \in fs : f.path # temp_file_path}
    ELSE fs

\* The number of faults a step adds: one when the collaborator call did not
\* return a plain result, one when os.remove failed.
Cost(deviates, removed) ==
    (IF deviates THEN 1 ELSE 0) + (IF removed THEN 0 ELSE 1)

\* Lines 143, 156-176 and 223-227: the drain loop ends, both reader tasks
\* are awaited (an exception of either goes to lines 223-227), the exit
\* status is read and a zero status ends the run: in success, or, when the
\* extractor raises an exception line 170 does not name, in the final_error
\* of lines 223-227.
Evaluate ==
    /\ pc = "stream"
    /\ ~Draining
    /\ IF stdout_task = "failed" \/ stderr_task = "failed"
       THEN /\ events' = Append(events, FinalError("system_error"))
            /\ return_code' = return_code
            /\ pc' = "terminal_try"
       ELSE /\ return_code' = <<Behaviour(proc).rc>>
            /\ IF Behaviour(proc).rc = 0
               THEN /\ events' = Append(events,
                         CASE ExtractReport(stdout_chunks) = "JSONDecodeError"
                                -> Ev("success", "success_no_json",
                                      current_code, "None", NoSummary, "-")
                           [] ExtractReport(stdout_chunks) = "RecursionError"
                                -> FinalError("system_error")
                           [] OTHER
                                -> Ev("success", "success_report",
                                      current_code,
                                      ExtractReport(stdout_chunks),
                                      NoSummary, "-"))
                    /\ pc' = "terminal_try"
               ELSE /\ events' = Append(events, Info("analyzing_cause"))
                    /\ pc' = "diag_start"
    /\ polls' = FALSE
    /\ UNCHANGED <<callVars, jobVars, fileVars, proc, stdout_chunks, stderr_chunks,
                   outPos, errPos, stdout_task, stderr_task, update_queue,
                   spawned, repairCalls, timeouts, faults>>

\* Lines 13-15: what the wrapper yields before it first awaits the call.
FirstHeartbeat_whenSlow(e) == <<>>
FirstHeartbeat(e) == <<e>>

\* Lines 180-182 with 13-15: the Diagnoser call is started in a thread and
\* the wrapper yields its first heartbeat, which line 185 forwards.
DiagStart ==
    /\ pc = "diag_start"
    /\ events' = events \o FirstHeartbeat(Info("hb_analyzing"))
    /\ pc' = "diag_wait"
    /\ UNCHANGED <<callVars, jobVars, fileVars, streamVars, ghostVars>>

\* Lines 16-19 and 15: the call is still running after the interval; one
\* more heartbeat is yielded and forwarded.
DiagTimeout ==
    /\ pc = "diag_wait"
    /\ timeouts < MaxTimeouts
    /\ timeouts' = timeouts + 1
    /\ events' = Append(events, Info("hb_analyzing"))
    /\ UNCHANGED <<callVars, pc, jobVars, fileVars, streamVars, repairCalls, polls,
                   faults>>

\* Lines 194-199: the failed attempt is recorded before the repair step.
RecordFailure_skip(history, entry) == history
RecordFailure_replace(history, entry) == <<entry>>
RecordFailure(history, entry) == Append(history, entry)

\* Line 191: the summary used when the Diagnoser gave none.
FallbackSummary ==
    [src |-> "tail", att |-> attempt,
     text |-> LastChars(Join(stderr_chunks), TailLen)]

\* Lines 178-190: does the try block of the diagnosis raise.  A dict with
\* status "info" is taken for a heartbeat and leaves error_summary as it
\* was; line 189 then raises if error_summary is still unbound.
DiagRaises(outcome) ==
    \/ outcome = "raise"
    \/ outcome = "info_dict" /\ error_summary = NoSummary

\* Lines 184-192: what the Diagnoser call leaves in error_summary.
SummaryAfter(outcome) ==
    IF DiagRaises(outcome) THEN FallbackSummary
    ELSE IF outcome = "text"
         THEN [src |-> "diag", att |-> attempt, text |-> <<>>]
    ELSE error_summary

\* Lines 184-192: the events of the diagnosis result.
DiagEvents_none(outcome) == <<>>

DiagEvents(outcome) ==
    (IF outcome = "info_dict"
     THEN <<Info("diag_result_forwarded")>> ELSE <<>>)
    \o <<Ev("error",
            IF DiagRaises(outcome)
            THEN "error_fallback" ELSE "error_summary",
            current_code, "-", SummaryAfter(outcome), "-")>>

\* Line 221: the position after the final_error of exhausted retries.
AfterMaxRetries_noReturn == "loop"
AfterMaxRetries == "terminal_try"

\* Lines 20, 184-202 and 219-221: the Diagnoser call ends; the error event
\* is yielded, the attempt is recorded, and either the repair step starts or
\* the run ends in final_error.
DiagDone ==
    /\ pc = "diag_wait"
    /\ \E outcome \in DiagOutcomes :
         /\ faults + Cost(outcome # "text", TRUE) <= MaxFaults
         /\ faults' = faults + Cost(outcome # "text", TRUE)
         /\ error_summary' = SummaryAfter(outcome)
         /\ error_history' = RecordFailure(error_history,
                [attempt |-> attempt,
                 error |-> LastChars(Join(stderr_chunks), TailLen),
                 summary |-> SummaryAfter(outcome)])
         /\ IF RepairAllowed(attempt, max_retries)
            THEN /\ events' = events \o DiagEvents(outcome)
                                \o <<Ev("fixing", "fixing", current_code, "-",
                                        NoSummary, "-")>>
                 /\ pc' = "fix_start"
            ELSE /\ events' = events \o DiagEvents(outcome)
                                \o <<Ev("final_error", "max_retries_reached",
                                        current_code, "None",
                                        SummaryAfter(outcome), "-")>>
                 /\ pc' = AfterMaxRetries
    /\ UNCHANGED <<callVars, max_retries, attempt, current_code, fileVars, streamVars,
                   repairCalls, timeouts, polls>>

\* Lines 217-218: the position after a failed repair (the loop goes on).
AfterRepairFailure_raise == "done"
AfterRepairFailure == "loop"

\* Lines 211-214: the script after the Repairer call.  Only a returned
\* script replaces current_code.
CodeAfterRepair_reset(outcome) ==
    IF outcome \in ScriptIds THEN outcome ELSE "ok_silent"
CodeAfterRepair(outcome) ==
    IF outcome \in ScriptIds THEN outcome ELSE current_code

\* Lines 205-209 with 13-15, and 217-218, 228-233: the CodeAdaptationAgent
\* is built and fix_code is started in a thread with the current script,
\* summary and history; the wrapper yields its first heartbeat.  A failing
\* construction is a failed repair.
FixStart ==
    /\ pc = "fix_start"
    /\ \E ok \in BOOLEAN, removed \in BOOLEAN :
         IF ok
         THEN /\ removed
              /\ faults' = faults
              /\ repairCalls' = Append(repairCalls,
                     [attempt |-> attempt, code |-> current_code,
                      summary |-> error_summary, history |-> error_history])
              /\ events' = events \o FirstHeartbeat(
                     Ev("fixing", "hb_fixing", current_code, "-", NoSummary,
                        "-"))
              /\ pc' = "fix_wait"
              /\ fs' = fs
         ELSE /\ faults + Cost(TRUE, removed) <= MaxFaults
              /\ faults' = faults + Cost(TRUE, removed)
              /\ repairCalls' = repairCalls
              /\ events' = Append(events,
                     Ev("error", "fixer_failed", current_code, "-",
                        NoSummary, "-"))
              /\ fs' = RemoveTemp(removed)
              /\ pc' = AfterRepairFailure
    /\ UNCHANGED <<callVars, jobVars, temp_file_path, streamVars, timeouts, polls>>

\* Lines 16-19 and 15: the repair call is still running after the interval.
FixTimeout ==
    /\ pc = "fix_wait"
    /\ timeouts < MaxTimeouts
    /\ timeouts' = timeouts + 1
    /\ events' = Append(events,
           Ev("fixing", "hb_fixing", current_code, "-", NoSummary, "-"))
    /\ UNCHANGED <<callVars, pc, jobVars, fileVars, streamVars, repairCalls, polls,
                   faults>>

\* Lines 20, 211-218 and 228-233: the Repairer call ends.  A returned script
\* replaces current_code; a raise leaves it; the finally clause removes the
\* attempt's file and the loop goes on.
FixDone ==
    /\ pc = "fix_wait"
    /\ \E outcome \in FixOutcomes, removed \in BOOLEAN :
         /\ faults + Cost(outcome \notin ScriptIds, removed) <= MaxFaults
         /\ faults' = faults + Cost(outcome \notin ScriptIds, removed)
         /\ current_code' = CodeAfterRepair(outcome)
         /\ events' = events \o
              (CASE outcome = "raise" ->
                      <<Ev("error", "fixer_failed", current_code, "-",
                           NoSummary, "-")>>
                 [] outcome = "fixing_dict" ->
                      <<Ev("fixing", "fix_result_forwarded", current_code,
                           "-", NoSummary, "-"),
                        Info("fix_applied")>>
                 [] OTHER ->
                      <<Ev("info", "fix_applied", outcome, "-", NoSummary,
                           "-")>>)
         /\ fs' = RemoveTemp(removed)
         /\ pc' = IF outcome = "raise" THEN AfterRepairFailure ELSE "loop"
    /\ UNCHANGED <<callVars, max_retries, attempt, error_history, error_summary,
                   temp_file_path, streamVars, repairCalls, timeouts, polls>>

\* The caller resumes the generator after a terminal event: the return
\* statement runs, with the finally clause of lines 228-233 when the event
\* was yielded inside the try block, and the generator is exhausted.
Resume ==
    /\ pc \in {"terminal_try", "terminal_plain"}
    /\ \E removed \in BOOLEAN :
         /\ pc = "terminal_plain" => removed
         /\ faults + Cost(FALSE, removed) <= MaxFaults
         /\ faults' = faults + Cost(FALSE, removed)
         /\ fs' = IF pc = "terminal_try" THEN RemoveTemp(removed) ELSE fs
    /\ pc' = "done"
    /\ UNCHANGED <<callVars, jobVars, temp_file_path, events, streamVars, repairCalls,
                   timeouts, polls>>

Next ==
    \/ Startup
    \/ LoopHead
    \/ WriteFile
    \/ Spawn
    \/ ReadStdoutLine
    \/ ReadStderrLine
    \/ ReadEOF
    \/ ReadFault
    \/ QueueGet
    \/ PollTimeout
    \/ Evaluate
    \/ DiagStart
    \/ DiagTimeout
    \/ DiagDone
    \/ FixStart
    \/ FixTimeout
    \/ FixDone
    \/ Resume

Spec == Init /\ [][Next]_vars

\* Every step but the expiry of the 0.1 s poll.
Progress ==
    \/ Startup \/ LoopHead \/ WriteFile \/ Spawn
    \/ ReadStdoutLine \/ ReadStderrLine \/ ReadEOF \/ ReadFault
    \/ QueueGet \/ Evaluate
    \/ DiagStart \/ DiagTimeout \/ DiagDone
    \/ FixStart \/ FixTimeout \/ FixDone
    \/ Resume

\* The event loop runs what is ready: the caller keeps reading the
\* generator, a reader task with data or end-of-data at hand runs, a
\* collaborator call returns or raises, and the 0.1 s timer of the drain
\* loop fires when nothing arrives.  Polling alone is not progress.
FairSpec == Spec /\ WF_vars(Progress) /\ WF_vars(PollTimeout)

\* ------------------------------------------- _run_with_heartbeat, timed
\* One call of the wrapper (lines 11-20) with its clock, apart from a job:
\* the job's variables stay as JobInit leaves them.
mainVars == <<pc, jobVars, fileVars, events, streamVars, ghostVars>>
\* What a step of the wrapper leaves alone.
restVars == <<mainVars, verVars, ctxVars>>

\* Line 17: the heartbeat interval, in seconds.
HeartbeatInterval == 5

\* Line 13: the task that runs f is created; it has not run yet when line
\* 14 tests it for the first time.
HbInit ==
    /\ JobInit
    /\ max_retries = 0
    /\ current_code = "ok_silent"
    /\ hbPc = "check"
    /\ now = 0
    /\ task = "running"
    /\ waitStart = 0
    /\ items = <<>>
    /\ idle = 0
    /\ VerIdle
    /\ CtxIdle

\* One item handed to the consumer: a heartbeat (line 15), f's result
\* (line 20) or f's exception raised out of the wrapper (lines 17, 20); with
\* the time, and whether the task was still running.
Item(kind) == [kind |-> kind, at |-> now, running |-> task = "running"]

\* Lines 14-15 and 20: the loop test.  While the task is not done a
\* heartbeat is yielded; once it is done, line 20 yields its result or
\* raises its exception.
HbCheck ==
    /\ hbPc = "check"
    /\ CASE task = "running" ->
              /\ items' = Append(items, Item("heartbeat"))
              /\ hbPc' = "yielded"
         [] task = "returned" ->
              /\ items' = Append(items, Item("result"))
              /\ hbPc' = "final"
         [] task = "raised" ->
              /\ items' = Append(items, Item("exception"))
              /\ hbPc' = "raised"
    /\ UNCHANGED <<now, task, waitStart, idle, restVars>>

\* Lines 15-17: the consumer resumes the wrapper after a heartbeat and
\* wait_for starts its timer.
HbResume ==
    /\ hbPc = "yielded"
    /\ hbPc' = "wait"
    /\ waitStart' = now
    /\ UNCHANGED <<now, task, items, idle, restVars>>

\* Line 17: the timer of wait_for fires no sooner than the interval after
\* it was started.
TimerExpired_early(start) == now >= start
TimerExpired(start) == now >= start + HeartbeatInterval

\* Line 17: on a timeout wait_for cancels what it awaits, which is the
\* shield around the task and not the task.
TaskAfterTimeout_cancel(t) == IF t = "running" THEN "cancelled" ELSE t
TaskAfterTimeout(t) == t

\* Lines 17-19: the timer fires; TimeoutError is caught and the loop goes
\* round to its test.
HbTimeout_rewait ==
    /\ hbPc = "wait"
    /\ TimerExpired(waitStart)
    /\ waitStart' = now
    /\ UNCHANGED <<hbPc, now, task, items, idle, restVars>>
HbTimeout ==
    /\ hbPc = "wait"
    /\ TimerExpired(waitStart)
    /\ hbPc' = "check"
    /\ task' = TaskAfterTimeout(task)
    /\ UNCHANGED <<now, waitStart, items, idle, restVars>>

\* Line 17: the task ended while awaited.  wait_for returns its result and
\* the loop test follows, or raises its exception out of the wrapper.
HbWaitDone ==
    /\ hbPc = "wait"
    /\ task # "running"
    /\ IF task = "returned"
       THEN /\ hbPc' = "check"
            /\ items' = items
       ELSE /\ hbPc' = "raised"
            /\ items' = Append(items, Item("exception"))
    /\ UNCHANGED <<now, task, waitStart, idle, restVars>>

\* Line 13: f returns or raises in its thread.  The event loop marks the
\* task done only while the wrapper is suspended (at line 15 or 17).
HbTaskEnds ==
    /\ hbPc \in {"yielded", "wait"}
    /\ task = "running"
    /\ task' \in {"returned", "raised"}
    /\ UNCHANGED <<hbPc, now, waitStart, items, idle, restVars>>

\* The wrapper could run and does not: its consumer holds it at the yield
\* of line 15, or the wait of line 17 is over (the timer expired or the
\* task ended) and the event loop has not resumed it yet.
Held ==
    \/ hbPc = "yielded"
    \/ hbPc = "wait" /\ (TimerExpired(waitStart) \/ task # "running")

\* Time passes while the wrapper is suspended.
HbTick ==
    /\ hbPc \in {"yielded", "wait"}
    /\ now < MaxClock
    /\ now' = now + 1
    /\ idle' = IF Held THEN idle + 1 ELSE idle
    /\ UNCHANGED <<hbPc, task, waitStart, items, restVars>>

\* Line 20: the consumer resumes the wrapper after the result; the
\* generator ends.
HbFinish ==
    /\ hbPc = "final"
    /\ hbPc' = "end"
    /\ UNCHANGED <<now, task, waitStart, items, idle, restVars>>

HbNext ==
    \/ HbCheck
    \/ HbResume
    \/ HbTimeout
    \/ HbWaitDone
    \/ HbTaskEnds
    \/ HbTick
    \/ HbFinish

HbSpec == HbInit /\ [][HbNext]_vars

\* ------------------------------------------------- check_updates, alone
\* One call of check_updates (api/settings.py 68-92), apart from a job.  A
\* version is held as its sequence of components; the handler sees it as
\* text, a sequence of character codes.
MaxParts == 3           \* components of a version: 1 .. MaxParts
Components == {0, 9, 10}
Versions == UNION {[1 .. n -> Components] : n \in 1 .. MaxParts}

\* Character codes of "." and "v" and of the digit d.
Dot == 46
LetterV == 118
DigitCode(d) == 48 + d

\* str(n) for a natural number.
RECURSIVE Decimal(_)
Decimal(n) ==
    IF n < 10 THEN <<DigitCode(n)>>
    ELSE Append(Decimal(n \div 10), DigitCode(n % 10))

\* ".".join(str(p) for p in parts)
RECURSIVE VersionText(_)
VersionText(parts) ==
    IF parts = <<>> THEN <<>>
    ELSE IF Len(parts) = 1 THEN Decimal(parts[1])
    ELSE Decimal(Head(parts)) \o <<Dot>> \o VersionText(Tail(parts))

\* The text of a release tag: the version, after "v" for some releases.
TagText(tag) ==
    (IF tag.v THEN <<LetterV>> ELSE <<>>) \o VersionText(tag.parts)

\* Line 77: s.replace("v", "")
RemoveV(s) == SelectSeq(s, LAMBDA c : c # LetterV)

\* Line 82: a > b on str, the ordering by code points; a proper prefix is
\* smaller.
RECURSIVE StrGreater(_, _)
StrGreater(a, b) ==
    IF a = <<>> THEN FALSE
    ELSE IF b = <<>> THEN TRUE
    ELSE IF Head(a) # Head(b) THEN Head(a) > Head(b)
    ELSE StrGreater(Tail(a), Tail(b))

VerInit ==
    /\ JobInit
    /\ max_retries = 0
    /\ current_code = "ok_silent"
    /\ HbIdle
    /\ CtxIdle
    /\ VERSION \in Versions
    /\ tag_name \in [v : BOOLEAN, parts : Versions]
    /\ update_response = <<>>

\* Lines 70-92: the latest release is fetched and compared with the running
\* version; a failing request answers has_update False.
CheckUpdates ==
    /\ update_response = <<>>
    /\ \E fetched \in BOOLEAN :
         update_response' =
            <<IF fetched
              THEN [error |-> FALSE,
                    latest_version |-> RemoveV(TagText(tag_name)),
                    has_update |-> StrGreater(RemoveV(TagText(tag_name)),
                                              VersionText(VERSION))]
              ELSE [error |-> TRUE,
                    latest_version |-> <<>>,
                    has_update |-> FALSE]>>
    /\ UNCHANGED <<VERSION, tag_name, mainVars, hbVars, ctxVars>>

VerNext == CheckUpdates

VerSpec == VerInit /\ [][VerNext]_vars

\* ------------------------------------------------------ fix_code, alone
\* The history section of one call of CodeAdaptationAgent.fix_code
\* (agents/code_adaptor.py 177-193), apart from a job.
MaxHistory == 5         \* entries of the error_history argument: 0 .. 5

\* What execute_code stores as the summary of an entry: the dict that
\* ErrorAnalysisAgent.analyze_error returns (error_analysis.py 59-65), or
\* the text of executor.py line 191.
SummaryKinds == {"dict", "text"}

\* The histories execute_code passes: one entry per failed attempt, in
\* attempt order.
Histories ==
    UNION {{[i \in 1 .. n |-> [attempt |-> i, summary |-> kinds[i]]] :
              kinds \in [1 .. n -> SummaryKinds]} : n \in 0 .. MaxHistory}

\* Line 189: the number of previous attempts shown.
RecentLimit == 3

\* Lines 187-189: error_history[:-1], then its last 3 entries.
RecentHistory(history) ==
    LET previous_attempts == SubSeq(history, 1, Len(history) - 1)
    IN  IF Len(previous_attempts) > RecentLimit
        THEN SubSeq(previous_attempts,
                    Len(previous_attempts) - RecentLimit + 1,
                    Len(previous_attempts))
        ELSE previous_attempts

\* Lines 181-193: the history section.  entry['summary'][:300] of line 192
\* raises TypeError on a dict.
HistorySection(history) ==
    IF Len(history) > 1
    THEN IF \E i \in DOMAIN RecentHistory(history) :
               RecentHistory(history)[i].summary = "dict"
         THEN [raised |-> TRUE, listed |-> <<>>]
         ELSE [raised |-> FALSE, listed |-> RecentHistory(history)]
    ELSE [raised |-> FALSE, listed |-> <<>>]

CtxInit ==
    /\ JobInit
    /\ max_retries = 0
    /\ current_code = "ok_silent"
    /\ HbIdle
    /\ VerIdle
    /\ fix_history \in Histories
    /\ history_section = <<>>

\* Lines 177-193: fix_code builds its history section.
FixCodeHistory ==
    /\ history_section = <<>>
    /\ history_section' = <<HistorySection(fix_history)>>
    /\ UNCHANGED <<fix_history, mainVars, hbVars, verVars>>

CtxNext == FixCodeHistory

CtxSpec == CtxInit /\ [][CtxNext]_vars

\* ------------------------------------------------------------------ claims
IsTerminal(e) == e.status \in {"success", "final_error"}
Terminals == SelectSeq(events, IsTerminal)
TerminalEmitted == Terminals # <<>>
LastEvent == events[Len(events)]
RunOver == pc \in {"terminal_try", "terminal_plain", "done"}

\* No fault of the environment ended the run: agent construction, temp-file
\* write, spawn, or an exception while reading the output.
NoSystemFault ==
    \A i \in DOMAIN events :
        events[i].msg \notin {"startup_failed", "write_failed", "system_error"}

\* The last line a script writes to standard output, as written.
LastStdoutLine(script) ==
    Behaviour(script).out[Len(Behaviour(script).out)]

AllAttemptsFailed ==
    /\ RunOver
    /\ NoSystemFault
    /\ \A i \in DOMAIN spawned : Behaviour(spawned[i]).rc # 0

\* C2 as stated: a script that exits non-zero on every attempt, run with the
\* bound N = max_retries, is executed exactly N times and the run ends in
\* exactly one final_error.
C2_ExactlyNExecutions ==
    (AllAttemptsFailed /\ max_retries >= 0)
    => /\ Len(spawned) = max_retries
       /\ Len(Terminals) = 1
       /\ LastEvent.status = "final_error"

\* C2 amended: such a script is executed exactly max_retries + 1 times and
\* the run ends in exactly one final_error.
C2_ExactlyNPlusOneExecutions ==
    AllAttemptsFailed
    => /\ Len(spawned) = max_retries + 1
       /\ Len(Terminals) = 1
       /\ LastEvent.status = "final_error"

C2_Witness ==
    /\ pc = "done"
    /\ max_retries = 1
    /\ spawned = <<"fail", "fail">>
    /\ LastEvent.msg = "max_retries_reached"

\* C3: at most one terminal event (success or final_error) is emitted, and it
\* is the last event of the sequence.
C3_TerminalIsLast ==
    /\ Len(Terminals) <= 1
    /\ \A i \in DOMAIN events : IsTerminal(events[i]) => i = Len(events)

C3_Witness ==
    /\ pc = "done"
    /\ Len(error_history) = 2
    /\ LastEvent.status = "final_error"

\* The child of the current attempt never exits.
ChildNeverExits == pc = "stream" /\ Behaviour(proc).hang

\* C4: every run eventually emits a terminal event, unless a child never
\* exits.
C4_EventuallyTerminal == <>(TerminalEmitted \/ ChildNeverExits)

C4_Witness ==
    /\ pc = "done"
    /\ \E i \in DOMAIN events : events[i].msg = "fixer_failed"
    /\ LastEvent.msg = "system_error"

NotBlank(line) == RStrip(line) # ""

\* The lines a script writes to standard output that are not blank.
NonBlankStdout(script) == SelectSeq(Behaviour(script).out, NotBlank)

\* The exit status read from the child is zero and the last line it wrote to
\* standard output is not valid JSON, or it wrote no line at all.
ZeroExitWithoutJson ==
    /\ return_code = <<0>>
    /\ \/ Behaviour(proc).out = <<>>
       \/ ~IsJson(LastStdoutLine(proc))

\* C5: after a zero exit with a last standard-output line that is
\* not valid JSON, or with no standard-output line, the run ends in a success
\* event whose report is null.
C5_ReportIsNull ==
    ZeroExitWithoutJson
    => /\ LastEvent.status = "success"
       /\ LastEvent.report = "None"

\* The script announced for attempt k.
AnnouncedCode(k) ==
    LET i == CHOOSE j \in DOMAIN events :
                 events[j].msg = "attempt" /\ events[j].att = k
    IN events[i].code

\* C6: a repair that raises after failed attempt k yields an error event, the
\* loop goes on to attempt k + 1 (k is within the bound), attempt k + 1 is
\* announced next with the script of attempt k, and its child runs that same
\* script.
C6_FailedRepairRetriesSameScript ==
    \A i \in DOMAIN events :
        events[i].msg = "fixer_failed" =>
          LET k == events[i].att IN
            /\ events[i].status = "error"
            /\ k <= max_retries
            /\ IF i = Len(events)
               THEN /\ pc = "loop"
                    /\ attempt = k
                    /\ current_code = AnnouncedCode(k)
               ELSE /\ events[i + 1].msg = "attempt"
                    /\ events[i + 1].att = k + 1
                    /\ events[i + 1].code = AnnouncedCode(k)
            /\ Len(spawned) > k => spawned[k + 1] = spawned[k]

C6_Witness ==
    \E i \in DOMAIN events :
        /\ events[i].msg = "fixer_failed"
        /\ events[i].att = 1
        /\ repairCalls # <<>>
        /\ Len(spawned) = 2
        /\ attempt = 2

Milestones ==
    LET kept == SelectSeq(events,
                  LAMBDA e : e.msg \notin {"line", "stderr_line",
                                           "hb_analyzing", "hb_fixing",
                                           "diag_result_forwarded",
                                           "fix_result_forwarded"})
    IN [i \in DOMAIN kept |->
          IF kept[i].status \in {"error", "success"}
          THEN kept[i].status ELSE kept[i].msg]

\* Attempt 1 exited non-zero and its repair returned `script`.
FirstRepairReturned(script) ==
    /\ spawned # <<>>
    /\ Behaviour(spawned[1]).rc # 0
    /\ \E i \in DOMAIN events :
         /\ events[i].msg = "fix_applied"
         /\ events[i].att = 1
         /\ events[i].code = script
         /\ events[i - 1].msg = "hb_fixing"

\* A script that exits zero and prints a JSON document as its last line.
GoodScript(script) ==
    /\ Behaviour(script).rc = 0
    /\ ~Behaviour(script).hang
    /\ Behaviour(script).out # <<>>
    /\ IsJson(LastStdoutLine(script))

C9_RunningAlwaysEnds == (pc = "stream") ~> (pc # "stream")

\* C10: once a terminal event has been emitted in a run without any fault,
\* no temporary script file of the job exists.
C10_NoTempFileAtTerminal ==
    (TerminalEmitted /\ NoSystemFault /\ faults = 0) => fs = {}

\* C11: every temporary script file created for an attempt is deleted by
\* the time the run has ended, however the attempt ended, a fault during the
\* write after the file was created included.  Stated for runs in which no
\* deletion failed.
C11_TempFilesDeletedAtEnd ==
    (pc = "done" /\ faults = 0) => fs = {}

\* Event i is the final_error of a fault of the environment before a child
\* ran: the write of the script file, or the spawn of the child.
WriteOrSpawnFaultAt(i) ==
    \/ events[i].msg = "write_failed"
    \/ events[i].msg = "system_error" /\ Len(spawned) < events[i].att

\* C12: a fault while writing the script file or spawning the child is
\* terminal at once: its final_error is the only terminal event and the last
\* event, the run is over with the attempt counter where it was, and neither
\* the Diagnoser nor the Repairer was invoked for that attempt.
C12_WriteOrSpawnFaultIsTerminal ==
    \A i \in DOMAIN events :
        WriteOrSpawnFaultAt(i) =>
          LET k == events[i].att IN
            /\ events[i].status = "final_error"
            /\ i = Len(events)
            /\ Len(Terminals) = 1
            /\ RunOver
            /\ attempt = k
            /\ \A j \in DOMAIN events :
                 events[j].att = k =>
                   events[j].msg \in {"attempt", "running", events[i].msg}
            /\ Len(error_history) < k
            /\ \A c \in DOMAIN repairCalls : repairCalls[c].attempt < k

C12_Witness ==
    /\ pc = "done"
    /\ max_retries = 1
    /\ attempt = 1
    /\ LastEvent.msg = "write_failed"
    /\ spawned = <<>>

\* The error text of a script: the lines it writes to standard error that
\* are not blank, without trailing blanks, joined by newlines.
ErrorText(script) ==
    LET kept == SelectSeq(Behaviour(script).err, NotBlank)
    IN Join([i \in DOMAIN kept |-> RStrip(kept[i])])

\* text[k:]: a text without its first k characters.
RECURSIVE DropChars(_, _)
DropChars(text, k) ==
    IF text = <<>> THEN <<>>
    ELSE IF k <= 0 THEN text
    ELSE LET first == text[1]
             len == first.to - first.from + 1
         IN IF len > k
            THEN <<[first EXCEPT !.from = first.from + k]>> \o Tail(text)
            ELSE DropChars(Tail(text), k - len)

\* C13: when the Diagnoser call raises after failed attempt k, the summary
\* is the last 500 characters of the attempt's error text (all of it when it
\* is shorter), exactly one error event carrying a summary is emitted for
\* the attempt, and the next event starts the repair step when attempts
\* remain (the exhausted final_error otherwise): the failure does not end
\* the job.
C13_DiagnoserFailureFallsBackToTail ==
    \A i \in DOMAIN events :
        events[i].msg = "error_fallback" =>
          LET k == events[i].att
              full == ErrorText(spawned[k])
              excess == TextLen(full) - TailLen
          IN /\ events[i].status = "error"
             /\ events[i].summary.src = "tail"
             /\ events[i].summary.text =
                  DropChars(full, IF excess > 0 THEN excess ELSE 0)
             /\ TextLen(events[i].summary.text) <= TailLen
             /\ Cardinality({j \in DOMAIN events :
                     /\ events[j].att = k
                     /\ events[j].msg \in {"error_summary",
                                            "error_fallback"}}) = 1
             /\ i < Len(events)
             /\ events[i + 1].msg = IF k <= max_retries
                                    THEN "fixing" ELSE "max_retries_reached"

C13_Witness ==
    /\ repairCalls # <<>>
    /\ repairCalls[1].summary.src = "tail"
    /\ \E i \in DOMAIN events :
         /\ events[i].msg = "error_fallback"
         /\ TextLen(ErrorText(spawned[1])) > TailLen
         /\ TextLen(events[i].summary.text) = TailLen
         /\ events[i].summary.text[1] =
              [line |-> "boom", from |-> 4, to |-> 4]
         /\ events[i + 1].msg = "fixing"

\* C14 as stated: the attempt that ends in the exhausted final_error had no
\* Diagnoser call and no error event: the engine went from the non-zero exit
\* directly to final_error.
C14_NoDiagnosisAtBound ==
    \A i \in DOMAIN events :
        events[i].msg = "max_retries_reached" =>
          \A j \in DOMAIN events :
              events[j].att = events[i].att =>
                events[j].msg \notin {"hb_analyzing", "error_summary",
                                      "error_fallback"}

\* C14 amended: after every non-zero exit the Diagnoser is invoked, whether
\* or not attempts remain; the exhausted final_error belongs to attempt
\* max_retries + 1, directly follows that attempt's error event, carries
\* its summary, and no repair was requested for that attempt.
C14_DiagnosisOnEveryFailure ==
    /\ \A i \in DOMAIN events :
         (events[i].msg = "analyzing_cause" /\ i < Len(events))
         => /\ events[i + 1].msg = "hb_analyzing"
            /\ events[i + 1].att = events[i].att
    /\ \A i \in DOMAIN events :
         events[i].msg = "max_retries_reached" =>
           /\ events[i].att = max_retries + 1
           /\ events[i - 1].status = "error"
           /\ events[i - 1].att = events[i].att
           /\ events[i - 1].summary = events[i].summary
           /\ \E j \in DOMAIN events :
                events[j].msg = "hb_analyzing" /\ events[j].att = events[i].att
           /\ \A c \in DOMAIN repairCalls :
                repairCalls[c].attempt < events[i].att

C14_Witness ==
    /\ pc = "done"
    /\ max_retries = 1
    /\ LastEvent.msg = "max_retries_reached"
    /\ LastEvent.att = 2
    /\ LastEvent.summary = [src |-> "diag", att |-> 2, text |-> <<>>]
    /\ \E j \in DOMAIN events :
         events[j].msg = "hb_analyzing" /\ events[j].att = 2

\* C15: a success event exists exactly when the exit status read from the
\* child is zero; it is emitted whatever the result extractor finds (a
\* parsed last line, an unparsable one, none), and an attempt whose exit
\* status was read non-zero never has a success event, even when its last
\* line is a JSON document.
C15_SuccessIffZeroExit ==
    /\ (\E i \in DOMAIN events : events[i].status = "success")
       <=> return_code = <<0>>
    /\ \A i \in DOMAIN events :
         events[i].status = "success" =>
           /\ Behaviour(spawned[events[i].att]).rc = 0
           /\ events[i].report \in {"dict(ok=True)", "dict()", "None"}
    /\ \A i \in DOMAIN events :
         events[i].msg = "analyzing_cause" =>
           /\ Behaviour(spawned[events[i].att]).rc # 0
           /\ \A j \in DOMAIN events :
                events[j].att = events[i].att => events[j].status # "success"

\* The lines carried by the events of a sequence that have message msg and
\* belong to the current attempt, in order.
LinesOf(seq, msg) ==
    LET sel == SelectSeq(seq, LAMBDA e : e.msg = msg /\ e.att = attempt)
    IN [i \in DOMAIN sel |-> sel[i].line]

NotJsonLine(line) == ~IsJson(line)

\* C16: events reach the caller in the order they are produced and attempt
\* by attempt.  The attempt of the events never decreases along the
\* sequence, so every event of attempt k (output lines, error, fixing,
\* repair outcome) precedes the first event of attempt k + 1, which is its
\* announcement; queued events belong to the current attempt; and the line
\* events of each stream, delivered then queued, are the lines in the order
\* the reader produced them.
C16_EventsInOrder ==
    /\ \A i \in DOMAIN events :
         i < Len(events) => events[i].att <= events[i + 1].att
    /\ \A i \in DOMAIN events :
         (events[i].att >= 1 /\ (i = 1 \/ events[i - 1].att < events[i].att))
         => events[i].msg = "attempt"
    /\ \A q \in DOMAIN update_queue : update_queue[q].att = attempt
    /\ Len(spawned) = attempt =>
         /\ LinesOf(events, "stderr_line") \o LinesOf(update_queue,
                                                      "stderr_line")
            = stderr_chunks
         /\ LinesOf(events, "line") \o LinesOf(update_queue, "line")
            = SelectSeq(stdout_chunks, NotJsonLine)

C16_Witness ==
    /\ attempt = 2
    /\ pc = "stream"
    /\ \E i, j, k, l \in DOMAIN events :
         /\ i < j /\ j < k /\ k < l
         /\ events[i].line = "boom" /\ events[i].att = 1
         /\ events[j].line = LongLine /\ events[j].att = 1
         /\ events[k].status = "error" /\ events[k].att = 1
         /\ events[l].msg = "stderr_line" /\ events[l].att = 2
    /\ Len(update_queue) = 1

\* The output phase of the current attempt is over: both readers reached
\* end-of-data and the queue is empty.
OutputDelivered ==
    /\ Len(spawned) = attempt
    /\ stdout_task = "done"
    /\ stderr_task = "done"
    /\ update_queue = <<>>

\* C17: for every line the child wrote to standard output or standard
\* error, whatever its content, exactly one line event tagged with its
\* source was emitted: once the output phase is over, the line events of
\* each source are the lines the child wrote to it, one for one and in
\* order.
C17_EveryLineOneEvent ==
    OutputDelivered =>
      /\ LinesOf(events, "line") =
           [i \in DOMAIN Behaviour(proc).out |->
              RStrip(Behaviour(proc).out[i])]
      /\ LinesOf(events, "stderr_line") =
           [i \in DOMAIN Behaviour(proc).err |->
              RStrip(Behaviour(proc).err[i])]

\* No step of the output phase waits for the other stream: a reader with an
\* unread line at hand can read it, and a queued event can be delivered.
NoReaderBlocked ==
    pc = "stream" =>
      /\ (stdout_task = "running" /\ outPos < Len(Behaviour(proc).out))
         => ENABLED ReadStdoutLine
      /\ (stderr_task = "running" /\ errPos < Len(Behaviour(proc).err))
         => ENABLED ReadStderrLine
      /\ update_queue # <<>> => ENABLED QueueGet

\* The child never exits, has lines on standard output, and its reader runs.
HangingWithOutput ==
    /\ pc = "stream"
    /\ Behaviour(proc).hang
    /\ stdout_task = "running"

\* The child still runs, standard error is open and silent, and every line
\* of standard output has been delivered to the caller.
DeliveredWhileOtherSilent ==
    /\ pc = "stream"
    /\ Behaviour(proc).hang
    /\ stderr_task = "running"
    /\ errPos = 0
    /\ Behaviour(proc).err = <<>>
    /\ LinesOf(events, "line") = NonBlankStdout(proc)

\* C18: a line available on one stream is delivered while the child is
\* still running and the other stream is open and silent (unless reading it
\* faults), and neither reader nor the delivery ever waits for the other
\* stream.
C18_NoStarvation ==
    /\ []NoReaderBlocked
    /\ HangingWithOutput ~>
         (DeliveredWhileOtherSilent \/ stdout_task = "failed")

C18_Witness ==
    /\ DeliveredWhileOtherSilent
    /\ stdout_task = "running"
    /\ LinesOf(events, "line") = <<"A">>
    /\ polls

\* Event i tells that the exit status of the current attempt was evaluated
\* (line 163): the success event, or the announcement of the diagnosis.
ExitEvaluatedAt(i) ==
    /\ events[i].att = attempt
    /\ events[i].msg \in {"success_report", "success_no_json",
                           "analyzing_cause"}

\* C19: the exit status of an attempt is evaluated only after both streams
\* reached end-of-data and every line event the two readers queued was
\* delivered: at that point both readers have ended at the end of their
\* stream, the queue is empty, and the line events of the attempt, all of
\* them before the evaluation, are the lines the readers queued.
C19_DrainedBeforeEvaluation ==
    \A i \in DOMAIN events :
        ExitEvaluatedAt(i) =>
          /\ stdout_task = "done" /\ outPos = Len(Behaviour(proc).out)
          /\ stderr_task = "done" /\ errPos = Len(Behaviour(proc).err)
          /\ update_queue = <<>>
          /\ LinesOf(events, "stderr_line") = stderr_chunks
          /\ LinesOf(events, "line") = SelectSeq(stdout_chunks, NotJsonLine)
          /\ \A j \in DOMAIN events :
               (events[j].att = attempt
                /\ events[j].msg \in {"line", "stderr_line"}) => j < i

C19_Witness ==
    /\ pc = "diag_start"
    /\ ExitEvaluatedAt(Len(events))
    /\ LinesOf(events, "stderr_line") = <<"boom", LongLine>>
    /\ stdout_chunks = <<"{\"ok\": true}">>

Heartbeats == SelectSeq(items, LAMBDA i : i.kind = "heartbeat")

EmittedBefore(i, k, msgs) ==
    \E j \in 1 .. i - 1 : events[j].att = k /\ events[j].msg \in msgs

\* C22: every Diagnoser call and every Repairer call has its liveness event
\* forwarded before its result is used, also when no heartbeat interval
\* expires: the error event of an attempt follows an "AI is analyzing the
\* error details..." info event of that attempt, and the result of a repair
\* call ("Fix applied", or "Auto-fixer failed" after a call was made)
\* follows an "AI is generating a fixed version of the code..." fixing
\* event of that attempt; while either call is running its liveness event
\* is already out.
C22_HeartbeatBeforeResult ==
    /\ \A i \in DOMAIN events :
         /\ events[i].msg \in {"error_summary", "error_fallback"}
            => EmittedBefore(i, events[i].att, {"hb_analyzing"})
         /\ events[i].msg \in {"fix_applied", "fix_result_forwarded"}
            => EmittedBefore(i, events[i].att, {"hb_fixing"})
    /\ \A c \in DOMAIN repairCalls :
         \E i \in DOMAIN events :
            /\ events[i].msg = "hb_fixing"
            /\ events[i].att = repairCalls[c].attempt
            /\ \A j \in DOMAIN events :
                 (/\ events[j].att = repairCalls[c].attempt
                  /\ events[j].msg \in {"fix_applied", "fixer_failed"})
                 => i < j
    /\ pc = "diag_wait" => events[Len(events)].msg = "hb_analyzing"
    /\ pc = "fix_wait" => events[Len(events)].msg = "hb_fixing"

C22_Witness ==
    /\ timeouts = 0
    /\ \E i, j \in DOMAIN events :
         /\ events[i].msg = "error_summary"
         /\ events[j].msg = "fix_applied"
         /\ events[i].att = events[j].att
         /\ Len(SelectSeq(events, LAMBDA e :
                 e.msg \in {"hb_analyzing", "hb_fixing"})) = 2

\* The components of a version, padded with zeros to n of them.
RECURSIVE PadTo(_, _)
PadTo(parts, n) == IF Len(parts) >= n THEN parts ELSE PadTo(Append(parts, 0), n)

\* Lexicographic order of two component vectors of one length.
RECURSIVE VectorGreater(_, _)
VectorGreater(a, b) ==
    IF a = <<>> THEN FALSE
    ELSE IF Head(a) # Head(b) THEN Head(a) > Head(b)
    ELSE VectorGreater(Tail(a), Tail(b))

IsNewer(latest, current) ==
    LET n == IF Len(latest) > Len(current) THEN Len(latest) ELSE Len(current)
    IN  VectorGreater(PadTo(latest, n), PadTo(current, n))

\* C23: when the update check answers, has_update holds exactly when the
\* latest release is newer than the running version in the numeric order:
\* component by component, the shorter version padded with zeros.
C23_UpdateCheckIsNumeric ==
    (update_response # <<>> /\ ~update_response[1].error)
    => (update_response[1].has_update <=> IsNewer(tag_name.parts, VERSION))

\* The attempt announcements yielded so far ("Execution attempt
\* k/(max_retries+1)...", k being the event's att).
Announcements == SelectSeq(events, LAMBDA e : e.msg = "attempt")

\* C24: in a run with max_retries >= 0 the i-th attempt announcement
\* carries the index i, no index exceeds max_retries + 1, and no more than
\* max_retries + 1 child processes are spawned (one at most per announced
\* attempt).
C24_AttemptsConsecutiveAndBounded ==
    max_retries >= 0
    => /\ \A i \in DOMAIN Announcements : Announcements[i].att = i
       /\ Len(Announcements) <= max_retries + 1
       /\ Len(Announcements) = attempt
       /\ Len(spawned) <= Len(Announcements)
       /\ Len(spawned) <= max_retries + 1

C24_Witness ==
    /\ max_retries >= 1
    /\ Len(Announcements) = max_retries + 1
    /\ Len(spawned) = max_retries + 1
    /\ RunOver

IsPrefix(a, b) == Len(a) <= Len(b) /\ SubSeq(b, 1, Len(a)) = a

\* C25: the attempt history only grows by appending (what was recorded
\* stays, unchanged and in place); every entry belongs to an attempt that
\* ran and exited non-zero, the attempt indices of the entries increase
\* strictly (so no attempt has two entries), and an attempt that exits zero
\* has no entry.
C25_HistoryOnlyGrows ==
    /\ [][IsPrefix(error_history, error_history')]_vars
    /\ [](\A i \in DOMAIN error_history :
            /\ error_history[i].attempt \in 1 .. attempt
            /\ error_history[i].attempt <= Len(spawned)
            /\ Behaviour(spawned[error_history[i].attempt]).rc # 0
            /\ i > 1 => error_history[i - 1].attempt
                            < error_history[i].attempt)
    /\ [](return_code = <<0>>
          => \A i \in DOMAIN error_history :
                error_history[i].attempt # attempt)

C25_Witness ==
    /\ Len(error_history) = 1
    /\ error_history[1].attempt = 1
    /\ attempt = 2
    /\ return_code = <<0>>
    /\ RunOver

\* The entries of a history other than its last, limited to the n most
\* recent of them, in order.
PreviousAttempts(history, n) ==
    LET m == IF Len(history) - 1 < n THEN Len(history) - 1 ELSE n
    IN  IF history = <<>> THEN <<>>
        ELSE [k \in 1 .. m |-> history[Len(history) - 1 - m + k]]

\* C26: the history section fix_code builds lists the history entries
\* other than the last one, limited to the 3 most recent of them, in
\* attempt order, and lists nothing when the history holds only the
\* current attempt's entry.
C26_ContextIsPreviousAttempts ==
    history_section # <<>>
    => /\ ~history_section[1].raised
       /\ history_section[1].listed = PreviousAttempts(fix_history, 3)

\* C27: the task that runs f is created once and is never cancelled or
\* started again: it is running until f returns or raises and keeps that
\* outcome from then on; a timeout of the wait leaves a running task
\* running; and the wrapper hands over a final item, or ends, only after
\* the task ended.
C27_CallRunsOnceToItsEnd ==
    /\ [](task \in {"running", "returned", "raised"})
    /\ [][task # "running" => task' = task]_vars
    /\ [][(hbPc = "wait" /\ hbPc' = "check" /\ task = "running")
          => task' = "running"]_vars
    /\ [](hbPc \in {"final", "end", "raised"} => task # "running")

C27_Witness ==
    /\ hbPc = "end"
    /\ task = "returned"
    /\ Len(Heartbeats) = 3
    /\ idle = 0

\* C28: the summary of every error event of a diagnosis, and of every
\* history entry, was made for that very attempt (the Diagnoser's value, or
\* the raw-error tail), and no value returned by the Diagnoser is forwarded
\* to the caller as a liveness event.
C28_SummaryIsOfItsAttempt ==
    /\ \A i \in DOMAIN events :
         /\ events[i].msg \in {"error_summary", "error_fallback"}
            => /\ events[i].summary.att = events[i].att
               /\ events[i].summary.src \in {"diag", "tail"}
         /\ events[i].msg # "diag_result_forwarded"
    /\ \A i \in DOMAIN error_history :
         error_history[i].summary.att = error_history[i].attempt

C30_FallbackOnlyForNegativeBound ==
    /\ max_retries >= 0
       => \A i \in DOMAIN events : events[i].msg # "ended_without_success"
    /\ max_retries < 0
       => /\ spawned = <<>>
          /\ attempt = 0
          /\ (RunOver /\ NoSystemFault)
             => /\ Len(events) = 1
                /\ events[1].status = "final_error"
                /\ events[1].msg = "ended_without_success"

C30_Witness ==
    /\ max_retries < 0
    /\ pc = "done"
    /\ Len(events) = 1
    /\ events[1].msg = "ended_without_success"
    /\ fs = {}

====
